---- MODULE Spec2Model ----
(***************************************************************************)
(* Model of the chainer crate: the CallChain / CallChainMut traits in      *)
(* their two builds (src/basic.rs, the default, and src/results.rs, the    *)
(* "results" feature) together with the CallChainResult and                *)
(* CallChainResultMut wrappers.                                            *)
(*                                                                         *)
(* A behaviour is one method-call chain written by a caller on a subject   *)
(* (the Counter of the tests and doc examples).  Memory is a sequence of   *)
(* places; place 1 is the subject, further places are wrapper temporaries  *)
(* that were borrowed because a chain call used the wrapper itself as the  *)
(* subject (the blanket impl applies to the wrapper types as well).        *)
(* References are place indices.  Layers of references over the same       *)
(* place (&&mut T and the like) are collapsed to the place they denote.    *)
(***************************************************************************)
EXTENDS Integers, Sequences, FiniteSets

VARIABLES
    mode,      \* build mode: "basic" or "results" (cfg(feature = "results"))
    counter0,  \* the value the caller constructed the Counter with
    mem,       \* the places: mem[1] is the subject, the rest borrowed wrappers
    COUNTER,   \* the static AtomicU8 of test_immutable
    log,       \* one entry per executed step function, in execution order
    cur,       \* the value of the chain expression written so far
    frame,     \* the chain call in progress, if any
    active,    \* the numbers of the chain calls whose step has not returned
    steps,     \* the chain / chain_mut calls the caller has written, in order
    read,      \* what the last accessor handed to the caller
    lastOp     \* the last operation the caller performed

vars == <<mode, counter0, mem, COUNTER, log, cur, frame, active, steps, read, lastOp>>

\* ---------------------------------------------------------------- bounds
MaxChain == 3    \* longest chain explored
MaxInit  == 1    \* Counter { value: 0..MaxInit }
MaxWrite == 1    \* values a caller writes through deref_mut: 0..MaxWrite

\* ---------------------------------------------------------------- values
Modes == {"basic", "results"}

\* Results of step functions: (), i32, Option<i32>, Result<i32, i32>.
Unit     == [tag |-> "Unit", v |-> 0]
I32(n)   == [tag |-> "I32",  v |-> n]
None     == [tag |-> "None", v |-> 0]
Some(n)  == [tag |-> "Some", v |-> n]
Ok(n)    == [tag |-> "Ok",   v |-> n]
Err(n)   == [tag |-> "Err",  v |-> n]
NoResult == [tag |-> "-",    v |-> 0]
FailTags == {"None", "Err"}

\* Every object has the same shape so that places, receivers and accessor
\* results can be compared: kind, value (the Counter's field), this (the
\* borrowed place of a reference or wrapper), result (a wrapper's result).
Counter(n) == [kind |-> "Counter", value |-> n, this |-> 0, result |-> NoResult]
Subject(p) == [kind |-> "Subject", value |-> 0, this |-> p, result |-> NoResult]
Ref(p)     == [kind |-> "Ref",     value |-> 0, this |-> p, result |-> NoResult]
RefMut(p)  == [kind |-> "RefMut",  value |-> 0, this |-> p, result |-> NoResult]
CallChainResult(p, r)    == [kind |-> "CallChainResult",    value |-> 0, this |-> p, result |-> r]
CallChainResultMut(p, r) == [kind |-> "CallChainResultMut", value |-> 0, this |-> p, result |-> r]
Value(r)   == [kind |-> "Value",   value |-> 0, this |-> 0, result |-> r]
Pending    == [kind |-> "Pending", value |-> 0, this |-> 0, result |-> NoResult]
Nothing    == [kind |-> "Nothing", value |-> 0, this |-> 0, result |-> NoResult]

Wrappers  == {"CallChainResult", "CallChainResultMut"}
ChainOps  == {"chain", "chain_mut"}

\* ---------------------------------------------------------------- steps
\* The step functions a caller supplies.  Those on a Counter:
\*   tick       fn(&self)      COUNTER.fetch_add(1)            (tests.rs)
\*   get        fn(&self)      -> i32, the value
\*   nonzero    fn(&self)      -> Option<i32>, None when the value is 0
\*   increment  fn(&mut self)  value += 1; -> i32              (tests.rs)
\*   double     fn(&mut self)  value *= 2
\*   try_dec    fn(&mut self)  -> Result: Err at 0, else value -= 1
\* and those on a wrapper used as a subject:
\*   peek       |w: &W| **w         reads the result through Deref
\*   take       |w: &mut W| ...     replaces the result through DerefMut
SharedCounterSteps == {"tick", "get", "nonzero"}
MutCounterSteps    == {"increment", "double", "try_dec"}
SharedWrapperSteps == {"peek"}
MutWrapperSteps    == {"take"}

StepsFor(kind, op) ==
    IF kind = "Counter"
    THEN IF op = "chain" THEN SharedCounterSteps ELSE MutCounterSteps
    ELSE IF op = "chain" THEN SharedWrapperSteps ELSE MutWrapperSteps

\* f(obj): the object and the static as f leaves them, and f's return value.
StepFn(f, obj, C) ==
    CASE f = "tick"      -> [obj |-> obj, COUNTER |-> (C + 1) % 256, result |-> Unit]
      [] f = "get"       -> [obj |-> obj, COUNTER |-> C, result |-> I32(obj.value)]
      [] f = "nonzero"   -> [obj |-> obj, COUNTER |-> C,
                             result |-> IF obj.value = 0 THEN None ELSE Some(obj.value)]
      [] f = "increment" -> [obj |-> [obj EXCEPT !.value = @ + 1], COUNTER |-> C,
                             result |-> I32(obj.value + 1)]
      [] f = "double"    -> [obj |-> [obj EXCEPT !.value = @ * 2], COUNTER |-> C,
                             result |-> Unit]
      [] f = "try_dec"   -> IF obj.value = 0
                            THEN [obj |-> obj, COUNTER |-> C, result |-> Err(0)]
                            ELSE [obj |-> [obj EXCEPT !.value = @ - 1], COUNTER |-> C,
                                  result |-> Ok(obj.value - 1)]
      [] f = "peek"      -> [obj |-> obj, COUNTER |-> C, result |-> obj.result]
      [] f = "take"      -> [obj |-> [obj EXCEPT !.result.v = 0], COUNTER |-> C,
                             result |-> obj.result]

\* ---------------------------------------------------------------- world
World == [mem |-> mem, COUNTER |-> COUNTER, log |-> log]

\* Variant of call: f runs twice, the second run on what the first left.
call_twice(f, p, w) ==
    LET r1 == StepFn(f, w.mem[p], w.COUNTER)
        r  == StepFn(f, r1.obj, r1.COUNTER)
        e  == [f |-> f, target |-> p,
               seen |-> r1.obj, seenC |-> r1.COUNTER,
               after |-> r.obj, afterC |-> r.COUNTER, result |-> r.result]
    IN  [w |-> [mem |-> [w.mem EXCEPT ![p] = r.obj],
                COUNTER |-> r.COUNTER,
                log |-> Append(w.log, e)],
         result |-> r.result]

\* `f(self)`: run the step function on the place `p` borrowed from world w.
\* The log entry records what f was handed and what it left behind.
call(f, p, w) ==
    LET r == StepFn(f, w.mem[p], w.COUNTER)
        e == [f |-> f, target |-> p,
              seen |-> w.mem[p], seenC |-> w.COUNTER,
              after |-> r.obj, afterC |-> r.COUNTER, result |-> r.result]
    IN  [w |-> [mem |-> [w.mem EXCEPT ![p] = r.obj],
                COUNTER |-> r.COUNTER,
                log |-> Append(w.log, e)],
         result |-> r.result]

\* ---------------------------------------------------------------- basic.rs
\* Variant of basic_chain: `f(self)` is evaluated twice.
basic_chain_twice(self, f, w) ==
    LET c1 == call(f, self, w)
        c  == call(f, self, c1.w)
    IN  [w |-> c.w, ret |-> Ref(self)]

\* fn chain(&self, f) -> &Self { f(self); self }
basic_chain(self, f, w) ==
    LET c == call(f, self, w) IN [w |-> c.w, ret |-> Ref(self)]

\* Variant of basic_chain_mut: the subject is reset after f returns.
basic_chain_mut_reset(self, f, w) ==
    LET c == call(f, self, w)
    IN  [w |-> [c.w EXCEPT !.mem[self].value = 0], ret |-> RefMut(self)]

\* fn chain_mut(&mut self, f) -> &mut Self { f(self); self }
basic_chain_mut(self, f, w) ==
    LET c == call(f, self, w) IN [w |-> c.w, ret |-> RefMut(self)]

\* ---------------------------------------------------------------- results.rs
\* Variant of T_chain: a failure value is swallowed into ().
T_chain_swallow(self, f, w) ==
    LET c == call(f, self, w)
    IN  [w |-> c.w,
         ret |-> CallChainResult(self, IF c.result.tag \in FailTags THEN Unit ELSE c.result)]

\* impl<T: ?Sized> CallChain for T
T_chain(self, f, w) ==
    LET c == call(f, self, w) IN [w |-> c.w, ret |-> CallChainResult(self, c.result)]

\* impl<T: ?Sized> CallChainMut for T
T_chain_mut(self, f, w) ==
    LET c == call(f, self, w) IN [w |-> c.w, ret |-> CallChainResultMut(self, c.result)]

\* Variant of CallChainResult_chain: the wrapper falls through to the
\* blanket impl and becomes the subject of a new chain.
CallChainResult_chain_rewrap(self, f, w) ==
    LET w1 == [w EXCEPT !.mem = Append(@, self)]
        c  == call(f, Len(w1.mem), w1)
    IN  [w |-> c.w, ret |-> CallChainResult(Len(w1.mem), c.result)]

\* impl<S: ?Sized, T> CallChain<S> for CallChainResult<'_, S, T>
CallChainResult_chain(self, f, w) ==
    LET c == call(f, self.this, w)
    IN  [w |-> c.w, ret |-> CallChainResult(self.this, c.result)]

\* impl<S: ?Sized, T> CallChain<S> for CallChainResultMut<'_, S, T>
CallChainResultMut_chain(self, f, w) ==
    LET c == call(f, self.this, w)
    IN  [w |-> c.w, ret |-> CallChainResult(self.this, c.result)]

\* Variant of CallChainResultMut_chain_mut: f runs on a copy of the subject.
CallChainResultMut_chain_mut_copy(self, f, w) ==
    LET c == call(f, self.this, w)
    IN  [w |-> [c.w EXCEPT !.mem = w.mem], ret |-> CallChainResultMut(self.this, c.result)]

\* Variant of CallChainResultMut_chain_mut: the old result is kept.
CallChainResultMut_chain_mut_keep(self, f, w) ==
    LET c == call(f, self.this, w)
    IN  [w |-> c.w, ret |-> CallChainResultMut(self.this, self.result)]

\* impl<S: ?Sized, T> CallChainMut<S> for CallChainResultMut<'_, S, T>
CallChainResultMut_chain_mut(self, f, w) ==
    LET c == call(f, self.this, w)
    IN  [w |-> c.w, ret |-> CallChainResultMut(self.this, c.result)]

\* Accessors of both wrappers.
into_result(self) == self.result
as_ref(self)      == self.this
as_mut(self)      == self.this
deref(self)       == self.result
deref_mut(self, v) == [self EXCEPT !.result.v = v]

\* ---------------------------------------------------------------- dispatch
\* Which impl a call `recv.op(f)` selects.  `param` says what f takes a
\* reference to: "S", the place the receiver borrows, or "Self", the
\* receiver's own type.  "none" is a call the compiler rejects.
\*  - basic.rs has the blanket impl only; on the owned subject Self is the
\*    subject, on a reference the step reaches the referent, and a step that
\*    mutates the subject needs exclusive access.
\*  - results.rs: the blanket impl is `CallChain<T> for T`, the wrapper
\*    impls are `CallChain<S> for CallChainResult<'_, S, _>`; both apply to
\*    a wrapper, and the parameter type of f selects between them.
Dispatch(m, recv, op, param) ==
    IF m = "basic"
    THEN CASE recv.kind = "Subject" /\ param = "Self" -> "basic"
           [] recv.kind = "RefMut"  /\ param = "S"    -> "basic"
           [] recv.kind = "Ref"     /\ param = "S" /\ op = "chain" -> "basic"
           [] OTHER -> "none"
    ELSE CASE recv.kind = "Subject" /\ param = "Self" -> "T"
           [] recv.kind \in Wrappers /\ param = "Self" -> "T"
           [] recv.kind = "CallChainResult" /\ param = "S" /\ op = "chain"
                -> "CallChainResult"
           [] recv.kind = "CallChainResultMut" /\ param = "S"
                -> "CallChainResultMut"
           [] OTHER -> "none"

\* The kind of object the step function of the call will be handed.
TargetKind(recv, param) ==
    IF recv.kind \in Wrappers /\ param = "Self" THEN recv.kind
    ELSE mem[recv.this].kind

\* Variant of InCall: the receiver stays usable while the call runs.
InCall_eager(recv) == recv

\* The value of the chain expression while a call is running: the next
\* chained call is a call on the value this one returns.
InCall(recv) == Pending

\* ---------------------------------------------------------------- actions
NoFrame == [op |-> "-", f |-> "-", impl |-> "-", self |-> Nothing]

Init ==
    /\ mode \in Modes
    /\ counter0 \in 0..MaxInit
    /\ mem = <<Counter(counter0)>>
    /\ COUNTER = 0
    /\ log = <<>>
    /\ cur = Subject(1)
    /\ frame = NoFrame
    /\ active = {}
    /\ steps = <<>>
    /\ read = Nothing
    /\ lastOp = "new"

\* The caller writes `.chain(f)` or `.chain_mut(f)` after the expression so
\* far: the method is entered and f starts.
ChainCall(op, f, param) ==
    /\ Len(steps) < MaxChain
    /\ cur.kind # "Pending"
    /\ Dispatch(mode, cur, op, param) # "none"
    /\ f \in StepsFor(TargetKind(cur, param), op)
    /\ frame' = [op |-> op, f |-> f, impl |-> Dispatch(mode, cur, op, param), self |-> cur]
    /\ cur' = InCall(cur)
    /\ active' = active \cup {Len(steps) + 1}
    /\ steps' = Append(steps, [op |-> op, f |-> f, param |-> param])
    /\ lastOp' = "call"
    /\ UNCHANGED <<mode, counter0, mem, COUNTER, log, read>>

\* The body of the selected impl: f runs on the borrowed place and the
\* method returns.  The blanket impl on a wrapper temporary borrows the
\* temporary, which becomes a place of its own.
Body(fr, w) ==
    CASE fr.impl = "basic" ->
            IF fr.op = "chain" THEN basic_chain(fr.self.this, fr.f, w)
                               ELSE basic_chain_mut(fr.self.this, fr.f, w)
      [] fr.impl = "T" ->
            LET w1 == IF fr.self.kind = "Subject" THEN w
                      ELSE [w EXCEPT !.mem = Append(@, fr.self)]
                p  == IF fr.self.kind = "Subject" THEN fr.self.this ELSE Len(w1.mem)
            IN  IF fr.op = "chain" THEN T_chain(p, fr.f, w1)
                                   ELSE T_chain_mut(p, fr.f, w1)
      [] fr.impl = "CallChainResult" -> CallChainResult_chain(fr.self, fr.f, w)
      [] fr.impl = "CallChainResultMut" ->
            IF fr.op = "chain" THEN CallChainResultMut_chain(fr.self, fr.f, w)
                               ELSE CallChainResultMut_chain_mut(fr.self, fr.f, w)

ChainReturn ==
    /\ frame # NoFrame
    /\ LET r == Body(frame, World)
       IN  /\ mem' = r.w.mem
           /\ COUNTER' = r.w.COUNTER
           /\ log' = r.w.log
           /\ cur' = r.ret
    /\ active' = active \ {Len(steps)}
    /\ frame' = NoFrame
    /\ lastOp' = frame.op
    /\ UNCHANGED <<mode, counter0, steps, read>>

\* wrapper.into_result(): consumes the wrapper, the chain ends.
IntoResult ==
    /\ cur.kind \in Wrappers
    /\ read' = Value(into_result(cur))
    /\ cur' = Value(into_result(cur))
    /\ lastOp' = "into_result"
    /\ UNCHANGED <<mode, counter0, mem, COUNTER, log, frame, active, steps>>

\* wrapper.as_ref()
AsRef ==
    /\ cur.kind \in Wrappers
    /\ read' = Ref(as_ref(cur))
    /\ lastOp' = "as_ref"
    /\ UNCHANGED <<mode, counter0, mem, COUNTER, log, cur, frame, active, steps>>

\* wrapper.as_mut(), CallChainResultMut only
AsMut ==
    /\ cur.kind = "CallChainResultMut"
    /\ read' = RefMut(as_mut(cur))
    /\ lastOp' = "as_mut"
    /\ UNCHANGED <<mode, counter0, mem, COUNTER, log, cur, frame, active, steps>>

\* Variant of Deref: the read runs the last step function again.
Deref_reinvoke ==
    /\ cur.kind \in Wrappers
    /\ LET c == call(log[Len(log)].f, log[Len(log)].target, World)
       IN  /\ mem' = c.w.mem
           /\ COUNTER' = c.w.COUNTER
           /\ log' = c.w.log
           /\ read' = Value(c.result)
    /\ lastOp' = "deref"
    /\ UNCHANGED <<mode, counter0, cur, frame, active, steps>>

\* *wrapper
Deref ==
    /\ cur.kind \in Wrappers
    /\ read' = Value(deref(cur))
    /\ lastOp' = "deref"
    /\ UNCHANGED <<mode, counter0, mem, COUNTER, log, cur, frame, active, steps>>

\* wrapper.result
ResultField ==
    /\ cur.kind \in Wrappers
    /\ read' = Value(cur.result)
    /\ lastOp' = "result"
    /\ UNCHANGED <<mode, counter0, mem, COUNTER, log, cur, frame, active, steps>>

\* Variant of DerefMut: the write lands in the borrowed subject.
DerefMut_subject(v) ==
    /\ cur.kind \in Wrappers
    /\ cur.result.tag \notin {"Unit", "None"}
    /\ cur' = deref_mut(cur, v)
    /\ mem' = [mem EXCEPT ![cur.this].value = v + 7]
    /\ lastOp' = "deref_mut"
    /\ UNCHANGED <<mode, counter0, COUNTER, log, frame, active, steps, read>>

\* *wrapper = v, through DerefMut; both wrappers implement it.  A result
\* of type () or a None has no other value of its shape to be written.
DerefMut(v) ==
    /\ cur.kind \in Wrappers
    /\ cur.result.tag \notin {"Unit", "None"}
    /\ cur' = deref_mut(cur, v)
    /\ lastOp' = "deref_mut"
    /\ UNCHANGED <<mode, counter0, mem, COUNTER, log, frame, active, steps, read>>

Next ==
    \/ \E op \in ChainOps, f \in SharedCounterSteps \cup MutCounterSteps
                               \cup SharedWrapperSteps \cup MutWrapperSteps,
          param \in {"S", "Self"} : ChainCall(op, f, param)
    \/ ChainReturn
    \/ IntoResult
    \/ AsRef
    \/ AsMut
    \/ Deref
    \/ ResultField
    \/ \E v \in 0..MaxWrite : DerefMut(v)

Spec == Init /\ [][Next]_vars

\* ================================================================ claims
Idle == frame = NoFrame
Last(s) == s[Len(s)]
Max(S) == CHOOSE x \in S : \A y \in S : y <= x
AccessorOps == {"into_result", "as_ref", "as_mut", "deref", "result"}
ResultReads == {"into_result", "deref", "result"}

\* Calling the step functions fs one after another directly on the object.
RECURSIVE Direct(_, _, _)
Direct(fs, obj, C) ==
    IF fs = <<>> THEN [obj |-> obj, COUNTER |-> C, results |-> <<>>]
    ELSE LET r == StepFn(Head(fs), obj, C)
             d == Direct(Tail(fs), r.obj, r.COUNTER)
         IN  [obj |-> d.obj, COUNTER |-> d.COUNTER, results |-> <<r.result>> \o d.results]

Written == [i \in 1..Len(steps) |-> steps[i].f]
AllOn(S) == \A i \in 1..Len(steps) : steps[i].f \in S

\* C1: in both modes every chain / chain_mut call runs the supplied step
\* function exactly once: after n completed calls exactly n step functions
\* have run, the i-th of them the one supplied to the i-th call.
C1_ExactlyOnce ==
    /\ Len(log) = Len(steps) - Cardinality(active)
    /\ \A i \in 1..Len(log) : log[i].f = steps[i].f

C1_Witness ==
    /\ Idle /\ Len(steps) = 3 /\ Len(log) = 3
    /\ AllOn({"tick"}) /\ COUNTER = 3

\* C2: after a chain of chain_mut calls with f1..fn on the subject, the
\* subject is in the state that calling f1, ..., fn directly, in that order,
\* on the initial subject produces.
C2_ChainMutIsDirect ==
    (Idle /\ AllOn(MutCounterSteps))
        => mem[1] = Direct(Written, Counter(counter0), 0).obj

C2_Witness ==
    /\ Idle /\ Written = <<"increment", "double", "increment">>
    /\ counter0 = 1 /\ mem[1].value = 5

\* C10: the steps of a chain run one after another in the written order: a
\* step function is in progress for at most one call, the latest one written,
\* and only when every earlier call's step has returned; with increment on a
\* Counter starting at 0 the k-th chained chain_mut call yields k and the
\* Counter ends at the number of calls.
C10_Sequential ==
    /\ Cardinality(active) <= 1
    /\ \A i \in active : i = Len(steps) /\ Len(log) = i - 1
    /\ (Idle /\ counter0 = 0 /\ AllOn({"increment"}) /\ \A i \in 1..Len(steps) : steps[i].op = "chain_mut")
          => /\ \A i \in 1..Len(log) : log[i].result = I32(i)
             /\ mem[1].value = Len(steps)

C10_Witness ==
    /\ Idle /\ counter0 = 0 /\ Written = <<"increment", "increment", "increment">>
    /\ mem[1].value = 3 /\ log[3].result = I32(3) /\ log[1].result = I32(1)


\* What the step function of the returning call is handed: the borrowed
\* place, or the receiver itself when the call borrows a wrapper temporary.
Handed(e) == IF e.target <= Len(mem) THEN mem[e.target] ELSE frame.self
Returning == frame # NoFrame /\ frame' = NoFrame

C3_ReadAfterCall ==
    (lastOp \in ChainOps /\ lastOp' \in ResultReads) => read'.result = Last(log).result

\* C3: in extended mode the wrapper returned by a chain call holds the
\* result of that call's step, the most recent one, and reading it right
\* after the call (result field, deref, into_result) yields that result;
\* three chained increments from 0 leave a held result of 3 and a subject
\* whose value is 3.
C3_HoldsLatest ==
    /\ [](mode = "results" /\ Idle /\ lastOp \in ChainOps
            => /\ cur.kind \in Wrappers
               /\ cur.result = Last(log).result
               /\ AllOn(SharedCounterSteps \cup MutCounterSteps)
                    => cur.result = Last(Direct(Written, Counter(counter0), 0).results))
    /\ [](mode = "results" /\ Idle /\ counter0 = 0
            /\ Written = <<"increment", "increment", "increment">> /\ lastOp \in ChainOps
            => cur.result = I32(3) /\ mem[cur.this].value = 3)
    /\ [][C3_ReadAfterCall]_vars

C3_Witness ==
    /\ mode = "results" /\ Idle /\ counter0 = 0
    /\ Written = <<"increment", "increment", "increment">>
    /\ lastOp = "into_result" /\ read = Value(I32(3)) /\ mem[1].value = 3

\* C4 as stated: in extended mode every step function of a chain that
\* starts on the subject receives the subject, and every wrapper produced
\* holds the reference to the subject.
C4_Original ==
    mode = "results"
        => /\ \A i \in 1..Len(log) : log[i].target = 1
           /\ cur.kind \in Wrappers => cur.this = 1

\* C4 amended: in extended mode, when every step function chained on a
\* wrapper takes the wrapper's subject type S, each step receives the
\* subject itself, no wrapper is borrowed as a subject, and every wrapper
\* produced holds the reference to the subject the chain started on.
C4_ContinuesChain ==
    (mode = "results" /\ \A i \in 2..Len(steps) : steps[i].param = "S")
        => /\ \A i \in 1..Len(log) : log[i].target = 1
           /\ cur.kind \in Wrappers => cur.this = 1
           /\ Len(mem) = 1

C4_Witness ==
    /\ mode = "results" /\ Idle /\ Len(steps) = 3
    /\ \A i \in 2..Len(steps) : steps[i].param = "S"
    /\ steps[1].op = "chain_mut" /\ steps[2].op = "chain_mut" /\ steps[3].op = "chain"
    /\ cur = CallChainResult(1, I32(counter0 + 2))

C5_ChainReturns ==
    (Returning /\ frame.op = "chain")
        => /\ Len(log') = Len(log) + 1
           /\ Last(log').seen = Handed(Last(log'))
           /\ Last(log').seenC = COUNTER
           /\ cur'.this = Last(log').target
           /\ cur'.kind \in {"Ref", "CallChainResult"}
           /\ (frame.self.kind \in Wrappers /\ frame.impl = "T")
                 \/ Last(log').target = frame.self.this

C6_PureRetrieval ==
    [][lastOp' \in AccessorOps
         => /\ log' = log /\ mem' = mem /\ COUNTER' = COUNTER
            /\ lastOp' = lastOp => read' = read
            /\ (lastOp \in ResultReads /\ lastOp' \in ResultReads)
                  => read'.result = read.result]_vars

C6_Witness ==
    /\ lastOp = "result" /\ read = Value(I32(2)) /\ Len(log) = 2 /\ mem[1].value = 2

\* C7: a chain / chain_mut call leaves the subject exactly as the step
\* function left it (unchanged when the step does not modify it), leaves
\* every other place and, apart from the step's own effect, the static
\* alone, and otherwise only produces its return value: the subject
\* reference in basic mode, a new wrapper around it in extended mode.
C7_NoSideEffect ==
    [][Returning
         => LET e == Last(log')
                r == StepFn(frame.f, Handed(e), COUNTER)
            IN  /\ mem'[e.target] = r.obj
                /\ r.obj = Handed(e) => mem'[e.target] = Handed(e)
                /\ COUNTER' = r.COUNTER
                /\ \A p \in 1..Len(mem) : p # e.target => mem'[p] = mem[p]
                /\ Len(mem') = IF e.target <= Len(mem) THEN Len(mem) ELSE Len(mem) + 1
                /\ cur' = IF mode = "basic"
                          THEN (IF frame.op = "chain" THEN Ref(e.target) ELSE RefMut(e.target))
                          ELSE (IF frame.op = "chain" THEN CallChainResult(e.target, r.result)
                                ELSE CallChainResultMut(e.target, r.result))]_vars

C7_Witness ==
    /\ Idle /\ mode = "basic" /\ Written = <<"increment", "increment", "get">>
    /\ mem[1].value = counter0 + 2 /\ cur = Ref(1)

\* C8 as stated: when the step function returns a failure value, the chain
\* call forwards it unchanged as its result.
C8_Original ==
    (Idle /\ lastOp \in ChainOps /\ Last(log).result.tag \in FailTags)
        => cur.kind \in Wrappers /\ cur.result = Last(log).result

\* C8 amended: when the step function returns a failure value, the chain
\* call raises no error of its own; in extended mode it forwards the value
\* unchanged as the result held by the returned wrapper, in basic mode it
\* discards the value and returns only the subject reference.
C8_ForwardsFailure ==
    (Idle /\ lastOp \in ChainOps /\ Last(log).result.tag \in FailTags)
        => IF mode = "results"
           THEN cur.kind \in Wrappers /\ cur.result = Last(log).result
           ELSE cur.kind \in {"Ref", "RefMut"} /\ cur.result = NoResult

C8_Witness ==
    /\ mode = "results" /\ Idle /\ lastOp = "chain" /\ Len(steps) = 1
    /\ cur = CallChainResult(1, None)

\* C9 as stated: the shared-borrow wrapper is read-only with respect to
\* its result.
C9_Original ==
    [][(cur.kind = "CallChainResult" /\ cur'.kind = "CallChainResult" /\ Idle /\ frame' = NoFrame)
         => cur'.result = cur.result]_vars

C9_Write ==
    lastOp' = "deref_mut"
        => /\ mem' = mem /\ COUNTER' = COUNTER /\ log' = log
           /\ cur'.kind = cur.kind /\ cur'.this = cur.this
           /\ cur'.result.tag = cur.result.tag

\* C9 amended: both wrappers expose the held result for reading as the
\* wrapper's own value and both offer in-place writing of it (DerefMut is
\* implemented for CallChainResult as well as CallChainResultMut); a write
\* changes only the held result and leaves the subject, the static and the
\* wrapper's subject reference unchanged.
C9_WriteOnlyResult ==
    /\ [](lastOp \in {"deref", "result"} => read = Value(cur.result))
    /\ [][C9_Write]_vars

C9_Witness ==
    /\ lastOp = "deref_mut" /\ cur.kind = "CallChainResult"
    /\ cur.result # Last(log).result /\ mem[1] = Last(log).after

====
